---- MODULE Spec2Model ----
(***************************************************************************)
(* A model of the poker decision engine of proj2 (deck.py, eval.py,        *)
(* bot.py): the Card/Deck objects with their list aliasing, the table-walk *)
(* hand evaluator, and the Monte-Carlo search loop of PokerBot; and of the *)
(* grid-world planner of proj1 (planner.py): uniform-cost search.          *)
(*                                                                         *)
(* Conventions.  A Card object has one field, value, and compares and      *)
(* hashes by it, so a Card held in a list is written as its value (1..52). *)
(* Python values handed to Card.get_value are tagged records (PyStr,       *)
(* PyInt, PyCard, PyOther).  Deck objects and the list objects their       *)
(* cards attribute refers to live in a heap, so that sharing a list        *)
(* between two decks, or rebinding cards to a new list, is visible.        *)
(* The win probability and the threshold are exact fractions               *)
(* <<numerator, denominator>>; a UCB1 score is kept in ten-thousandths.    *)
(***************************************************************************)
EXTENDS Integers, Sequences, FiniteSets, TLC

(* ------------------------------ bounds --------------------------------- *)

\* Largest remaining deck handed to a PokerBot.
MaxDeck == 3
\* Search iterations that start before the deadline is reached.
MaxIter == 3
\* Deck operations performed in the deck specification.
MaxOps == 3
\* Largest visit count of a pre-set root in the decision specification.
MaxFixture == 10
\* Deck objects alive at once in the deck specification.
MaxDecks == 2
\* Longest list handed to evaluate_hand in the evaluator specification.
MaxEvalLen == 8
\* Longest hand handed to compare_hands in the evaluator specification.
MaxHandLen == 3
\* Calls of PokerBot's methods in the specification of the methods.
MaxCalls == 5
\* Cells (rows times columns) of the largest grid world handed to the planner.
MaxCells == 6
\* Dirty cells of a grid world handed to the planner.
MaxDirty == 2
\* Blocked cells of a grid world handed to the planner.
MaxWalls == 1

(* ------------------------------ helpers -------------------------------- *)

InSeq(seq, x) == \E i \in 1..Len(seq) : seq[i] = x

IndexOf(seq, x) == CHOOSE i \in 1..Len(seq) : seq[i] = x

Range(seq) == {seq[i] : i \in 1..Len(seq)}

Distinct(seq) == \A i, j \in 1..Len(seq) : i # j => seq[i] # seq[j]

Max2(a, b) == IF a >= b THEN a ELSE b

\* With(e, LAMBDA x : body) is body with x standing for the value of e.
With(v, Body(_)) == Body(v)

\* All permutations of 1..n, as sequences.
PermsOf(n) == {p \in [1..n -> 1..n] : \A i, j \in 1..n : i # j => p[i] # p[j]}

(* ------------------------------- Card ---------------------------------- *)

\* Card.RANKS and Card.SUITS: a key's position, less one, is its dict value.
RANKS == <<"2", "3", "4", "5", "6", "7", "8", "9", "T", "J", "Q", "K", "A">>

SUITS == <<"s", "h", "d", "c">>

PyStr(s) == [t |-> "str", s |-> s]

PyInt(v) == [t |-> "int", v |-> v]

PyCard(v) == [t |-> "Card", value |-> v]

PyOther == [t |-> "other"]

\* A list of Card objects as the evaluator receives it.
AsCards(seq) == [i \in 1..Len(seq) |-> PyCard(seq[i])]

\* get_value numbering the cards suit by suit (suit * 13 + rank + 1).
get_value_suit_major(val) ==
    CASE val.t = "str" ->
           IF Len(val.s) # 2 THEN [raised |-> TRUE, value |-> 0]
           ELSE IF ~InSeq(RANKS, val.s[1]) THEN [raised |-> TRUE, value |-> 0]
           ELSE IF ~InSeq(SUITS, val.s[2]) THEN [raised |-> TRUE, value |-> 0]
           ELSE [raised |-> FALSE,
                 value |-> (IndexOf(SUITS, val.s[2]) - 1) * 13
                           + (IndexOf(RANKS, val.s[1]) - 1) + 1]
      [] val.t = "int" ->
           IF 1 <= val.v /\ val.v <= 52
           THEN [raised |-> FALSE, value |-> val.v]
           ELSE [raised |-> TRUE, value |-> 0]
      [] val.t = "Card" -> [raised |-> FALSE, value |-> val.value]
      [] OTHER -> [raised |-> TRUE, value |-> 0]

\* Card.get_value: the value, or raised (a ValueError).
get_value(val) ==
    CASE val.t = "str" ->
           IF Len(val.s) # 2 THEN [raised |-> TRUE, value |-> 0]
           ELSE IF ~InSeq(RANKS, val.s[1]) THEN [raised |-> TRUE, value |-> 0]
           ELSE IF ~InSeq(SUITS, val.s[2]) THEN [raised |-> TRUE, value |-> 0]
           ELSE [raised |-> FALSE,
                 value |-> (IndexOf(RANKS, val.s[1]) - 1) * 4
                           + (IndexOf(SUITS, val.s[2]) - 1) + 1]
      [] val.t = "int" ->
           IF 1 <= val.v /\ val.v <= 52
           THEN [raised |-> FALSE, value |-> val.v]
           ELSE [raised |-> TRUE, value |-> 0]
      [] val.t = "Card" -> [raised |-> FALSE, value |-> val.value]
      [] OTHER -> [raised |-> TRUE, value |-> 0]

\* Card.__init__: the Card object, or raised.
Card_init(val) ==
    [raised |-> get_value(val).raised, card |-> PyCard(get_value(val).value)]

\* Card.__str__: the rank and suit characters, a string of two.
Card_str(card) ==
    <<RANKS[((card.value - 1) \div 4) + 1], SUITS[((card.value - 1) % 4) + 1]>>

\* Card.__eq__
Card_eq(a, b) == IF b.t # "Card" THEN FALSE ELSE a.value = b.value

(* ------------------------------- Deck ---------------------------------- *)
(* A heap is [decks, lists]: decks maps a Deck object to the list object   *)
(* its cards attribute is bound to, lists maps a list object to its        *)
(* elements.  A list no deck refers to is freed.                           *)

EmptyHeap == [decks |-> <<>>, lists |-> <<>>]

\* The lowest identity not in use.
Alloc(f) ==
    CHOOSE i \in 1..(Cardinality(DOMAIN f) + 1) :
        i \notin DOMAIN f /\ \A j \in 1..(i - 1) : j \in DOMAIN f

\* Reference counting: only lists some deck's cards refers to stay.
Collect(h) ==
    [decks |-> h.decks,
     lists |-> [l \in {h.decks[d] : d \in DOMAIN h.decks} |-> h.lists[l]]]

\* A Deck object going out of scope.
Release(h, d) ==
    Collect([decks |-> [e \in DOMAIN h.decks \ {d} |-> h.decks[e]],
             lists |-> h.lists])

\* deck.cards
cards_of(h, d) == h.lists[h.decks[d]]

\* Deck.__len__
deck_len(h, d) == Len(cards_of(h, d))

\* Deck.__init__: the 52 cards, suit by suit, each built from its code.
Deck_init(h) ==
    LET d == Alloc(h.decks)
        l == Alloc(h.lists)
        cards == [i \in 1..52 |->
                    get_value(PyStr(<<RANKS[((i - 1) % 13) + 1],
                                      SUITS[((i - 1) \div 13) + 1]>>)).value]
    IN  [heap |-> [decks |-> (d :> l) @@ h.decks,
                   lists |-> (l :> cards) @@ h.lists],
         ref |-> d]

\* Deck.shuffle: random.shuffle permutes the list object in place.
shuffle(h, d, perm) ==
    LET old == cards_of(h, d)
    IN  [decks |-> h.decks,
         lists |-> [h.lists EXCEPT ![h.decks[d]] =
                       [i \in 1..Len(old) |-> old[perm[i]]]]]

\* deal keeping one card too few in the deck.
deal_off_by_one(h, d, n) ==
    IF n > Len(cards_of(h, d))
    THEN [heap |-> h, dealt |-> <<>>, raised |-> TRUE]
    ELSE [heap |-> Collect(
              [decks |-> [h.decks EXCEPT ![d] = Alloc(h.lists)],
               lists |-> (Alloc(h.lists) :>
                             SubSeq(cards_of(h, d), n + 2,
                                    Len(cards_of(h, d)))) @@ h.lists]),
          dealt |-> SubSeq(cards_of(h, d), 1, n),
          raised |-> FALSE]

\* deal leaving the dealt cards in the deck.
deal_keeps_cards(h, d, n) ==
    IF n > Len(cards_of(h, d))
    THEN [heap |-> h, dealt |-> <<>>, raised |-> TRUE]
    ELSE [heap |-> h, dealt |-> SubSeq(cards_of(h, d), 1, n),
          raised |-> FALSE]

\* Deck.deal for n >= 0: slices make new lists; cards is rebound.
deal(h, d, n) ==
    LET old == cards_of(h, d)
    IN  IF n > Len(old)
        THEN [heap |-> h, dealt |-> <<>>, raised |-> TRUE]
        ELSE LET l == Alloc(h.lists)
             IN  [heap |-> Collect(
                      [decks |-> [h.decks EXCEPT ![d] = l],
                       lists |-> (l :> SubSeq(old, n + 1, Len(old))) @@ h.lists]),
                  dealt |-> SubSeq(old, 1, n),
                  raised |-> FALSE]

\* copy binding the new Deck's cards to the original's list object.
copy_shared_list(h, d) ==
    With(Deck_init(h), LAMBDA made :
    [heap |-> Collect([decks |-> [made.heap.decks EXCEPT ![made.ref] =
                                     h.decks[d]],
                       lists |-> made.heap.lists]),
     ref |-> made.ref])

\* copy handing back the deck itself.
copy_alias(h, d) == [heap |-> h, ref |-> d]

\* Deck.copy: a new Deck whose cards is a new list of new Card objects.
copy(h, d) ==
    With(Deck_init(h), LAMBDA made :
    [heap |-> Collect(
         [decks |-> [made.heap.decks EXCEPT ![made.ref] =
                        Alloc(made.heap.lists)],
          lists |-> (Alloc(made.heap.lists) :>
                        [i \in 1..Len(cards_of(h, d)) |->
                            get_value(PyInt(cards_of(h, d)[i])).value])
                    @@ made.heap.lists]),
     ref |-> made.ref])

(* --------------------------- HandEvaluator ----------------------------- *)

\* HandEvaluator.HAND_TYPES.get(hand_type, "Unknown")
HAND_TYPES(hand_type) ==
    CASE hand_type = 1 -> "High Card"
      [] hand_type = 2 -> "One Pair"
      [] hand_type = 3 -> "Two Pair"
      [] hand_type = 4 -> "Three of a Kind"
      [] hand_type = 5 -> "Straight"
      [] hand_type = 6 -> "Flush"
      [] hand_type = 7 -> "Full House"
      [] hand_type = 8 -> "Four of a Kind"
      [] hand_type = 9 -> "Straight Flush"
      [] OTHER -> "Unknown"

(* The lookup table is a data file outside the sources.  Two stand-in      *)
(* tables with the documented layout are used: an entry at 53*node + card  *)
(* holds 53 times the next node, or after the seventh card the strength    *)
(* (category * 4096 + rank).  A node stands for the number of cards read   *)
(* and what the strength needs of them: in table "max" the highest card    *)
(* value, in table "sum" the sum of the cards' rank indices.               *)
TableKinds == {"max", "sum"}

TableWidth(kind) == IF kind = "max" THEN 53 ELSE 85

TableSize(kind) == 53 * (1 + 7 * TableWidth(kind))

hand_ranks(kind, i) ==
    LET node == i \div 53
        c == i % 53
        w == TableWidth(kind)
        k == (node - 1) \div w
        agg == (node - 1) % w
        nagg == IF kind = "max" THEN Max2(agg, c) ELSE agg + ((c - 1) \div 4)
    IN  IF node < 1 \/ c < 1 THEN 0
        ELSE IF k < 6 THEN 53 * (1 + (k + 1) * w + nagg)
        ELSE IF kind = "max" THEN 4096 + nagg
        ELSE (1 + (nagg \div 10)) * 4096 + nagg

RECURSIVE table_walk(_, _, _, _)
\* for c in vals: p = self.hand_ranks[p + c]; -1 stands for an IndexError.
table_walk(kind, p, vals, i) ==
    IF i > Len(vals) THEN p
    ELSE IF p + vals[i] >= TableSize(kind) THEN -1
    ELSE table_walk(kind, hand_ranks(kind, p + vals[i]), vals, i + 1)

NoEval == [raised |-> TRUE, err |-> "ValueError", value |-> 0,
           hand_rank |-> 0, hand_type |-> 0, hand_name |-> ""]

\* HandEvaluator.evaluate_hand
evaluate_hand(kind, cards) ==
    With([i \in 1..Len(cards) |-> get_value(cards[i])], LAMBDA got :
    With([i \in 1..Len(cards) |-> got[i].value], LAMBDA vals :
    IF \E i \in 1..Len(cards) : got[i].raised THEN NoEval
    ELSE IF Len(vals) # 7 THEN NoEval
    ELSE With(table_walk(kind, 53, vals, 1), LAMBDA p :
         IF p < 0 THEN [NoEval EXCEPT !.err = "IndexError"]
         ELSE [raised |-> FALSE, err |-> "", value |-> p,
               hand_rank |-> p % 4096, hand_type |-> p \div 4096,
               hand_name |-> HAND_TYPES(p \div 4096)])))

NoCompare == [raised |-> TRUE, err |-> "ValueError", result |-> 0,
              eval1 |-> NoEval, eval2 |-> NoEval]

\* compare_hands scoring a tie as a win of the first hand.
compare_hands_tie_wins(kind, hand1, hand2, board) ==
    IF Len(hand1) # 2 \/ Len(hand2) # 2 THEN NoCompare
    ELSE IF Len(board) # 5 THEN NoCompare
    ELSE With(evaluate_hand(kind, hand1 \o board), LAMBDA eval1 :
         IF eval1.raised THEN [NoCompare EXCEPT !.err = eval1.err]
         ELSE With(evaluate_hand(kind, hand2 \o board), LAMBDA eval2 :
              IF eval2.raised THEN [NoCompare EXCEPT !.err = eval2.err]
              ELSE [raised |-> FALSE, err |-> "",
                    result |-> IF eval1.value >= eval2.value THEN 1 ELSE -1,
                    eval1 |-> eval1, eval2 |-> eval2]))

\* compare_hands leaving the size checks to evaluate_hand.
compare_hands_unchecked(kind, hand1, hand2, board) ==
    With(evaluate_hand(kind, hand1 \o board), LAMBDA eval1 :
    IF eval1.raised THEN [NoCompare EXCEPT !.err = eval1.err]
    ELSE With(evaluate_hand(kind, hand2 \o board), LAMBDA eval2 :
         IF eval2.raised THEN [NoCompare EXCEPT !.err = eval2.err]
         ELSE [raised |-> FALSE, err |-> "",
               result |-> IF eval1.value > eval2.value THEN 1
                          ELSE IF eval2.value > eval1.value THEN -1
                          ELSE 0,
               eval1 |-> eval1, eval2 |-> eval2]))

\* HandEvaluator.compare_hands
compare_hands(kind, hand1, hand2, board) ==
    IF Len(hand1) # 2 \/ Len(hand2) # 2 THEN NoCompare
    ELSE IF Len(board) # 5 THEN NoCompare
    ELSE With(evaluate_hand(kind, hand1 \o board), LAMBDA eval1 :
         IF eval1.raised THEN [NoCompare EXCEPT !.err = eval1.err]
         ELSE With(evaluate_hand(kind, hand2 \o board), LAMBDA eval2 :
              IF eval2.raised THEN [NoCompare EXCEPT !.err = eval2.err]
              ELSE [raised |-> FALSE, err |-> "",
                    result |-> IF eval1.value > eval2.value THEN 1
                               ELSE IF eval2.value > eval1.value THEN -1
                               ELSE 0,
                    eval1 |-> eval1, eval2 |-> eval2]))

(* ------------------------ VacuumWorld, VacuumBot ----------------------- *)
(* planner.py.  A position is <<row, column>>, counted from 0; a state is  *)
(* [pos, dirty], dirty the frozenset of positions still dirty.             *)

\* The cells of a grid in the order __init__ scans them, row by row.
CellSeq(nrows, ncols) ==
    [i \in 1..(nrows * ncols) |-> <<(i - 1) \div ncols, (i - 1) % ncols>>]

\* VacuumWorld.__init__ on a file with ncols, nrows and the rows' lines,
\* one character a cell; the file marks a start cell.
VacuumWorld_init(ncols, nrows, lines) ==
    [actions |-> <<"V", "W", "E", "S", "N">>,
     nrows |-> nrows,
     ncols |-> ncols,
     grid |-> lines,
     dirty |-> SelectSeq(CellSeq(nrows, ncols),
                         LAMBDA p : lines[p[1] + 1][p[2] + 1] = "*"),
     start |-> SelectSeq(CellSeq(nrows, ncols),
                  LAMBDA p : lines[p[1] + 1][p[2] + 1] = "@")
                  [Len(SelectSeq(CellSeq(nrows, ncols),
                           LAMBDA p : lines[p[1] + 1][p[2] + 1] = "@"))]]

\* VacuumWorld.is_valid_cell
is_valid_cell(w, pos) ==
    /\ 0 <= pos[1] /\ pos[1] < w.nrows
    /\ 0 <= pos[2] /\ pos[2] < w.ncols
    /\ w.grid[pos[1] + 1][pos[2] + 1] # "#"

\* VacuumWorld.is_clean
is_clean(state) == Cardinality(state.dirty) = 0

\* The offsets next_states gives an action other than V.
offset(action) ==
    CASE action = "N" -> <<-1, 0>>
      [] action = "S" -> <<1, 0>>
      [] action = "E" -> <<0, 1>>
      [] action = "W" -> <<0, -1>>
      [] OTHER -> <<0, 0>>

\* One pass of the loop of next_states: what the action appends.
next_state_of(w, state, action) ==
    IF action = "V"
    THEN IF state.pos \in state.dirty
         THEN <<[action |-> action,
                 state |-> [pos |-> state.pos,
                            dirty |-> {d \in state.dirty : d # state.pos}],
                 cost |-> 1]>>
         ELSE <<>>
    ELSE IF is_valid_cell(w, <<state.pos[1] + offset(action)[1],
                               state.pos[2] + offset(action)[2]>>)
         THEN <<[action |-> action,
                 state |-> [pos |-> <<state.pos[1] + offset(action)[1],
                                      state.pos[2] + offset(action)[2]>>,
                            dirty |-> state.dirty],
                 cost |-> 1]>>
         ELSE <<>>

RECURSIVE next_states_from(_, _, _)
\* The loop of next_states from the i-th action on.
next_states_from(w, state, i) ==
    IF i > Len(w.actions) THEN <<>>
    ELSE next_state_of(w, state, w.actions[i])
             \o next_states_from(w, state, i + 1)

\* VacuumWorld.next_states
next_states(w, state) == next_states_from(w, state, 1)

NoGoal == [some |-> FALSE, state |-> [pos |-> <<0, 0>>, dirty |-> {}]]

\* VacuumBot.__init__; goal None is NoGoal.
VacuumBot_init(w) ==
    [start |-> [pos |-> w.start, dirty |-> Range(w.dirty)],
     goal |-> NoGoal,
     parents |-> <<>>]

\* heapq.heappop: the entry least by cost, then by id.
heappop(h) ==
    CHOOSE e \in h :
        \A f \in h : e.cost < f.cost \/ (e.cost = f.cost /\ e.id <= f.id)

RECURSIVE ucs_for(_, _, _, _, _)
\* The for loop of run_ucs (lines 120-132) over succs from the i-th on;
\* loc holds gen, id, costs, heap, parents and goal, and returned once the
\* loop has left through the return of line 126.
ucs_for(state, cost, succs, i, loc) ==
    IF i > Len(succs) THEN loc
    ELSE IF is_clean(succs[i].state)
    THEN [loc EXCEPT !.gen = @ + 1,
                     !.parents = (succs[i].state :>
                                     [parent |-> state,
                                      action |-> succs[i].action]) @@ @,
                     !.goal = [some |-> TRUE, state |-> succs[i].state],
                     !.returned = TRUE]
    ELSE IF succs[i].state \notin DOMAIN loc.costs
            \/ cost + succs[i].cost < loc.costs[succs[i].state]
    THEN ucs_for(state, cost, succs, i + 1,
                 [loc EXCEPT !.gen = @ + 1,
                             !.costs = (succs[i].state :>
                                           (cost + succs[i].cost)) @@ @,
                             !.heap = @ \cup {[cost |-> cost + succs[i].cost,
                                               id |-> loc.id,
                                               state |-> succs[i].state]},
                             !.id = @ + 1,
                             !.parents = (succs[i].state :>
                                             [parent |-> state,
                                              action |-> succs[i].action])
                                         @@ @])
    ELSE ucs_for(state, cost, succs, i + 1, [loc EXCEPT !.gen = @ + 1])

RECURSIVE find_path_from(_, _)
\* The loop of find_path from child, the actions put in the order walked.
find_path_from(parents, child) ==
    IF child \in DOMAIN parents
    THEN find_path_from(parents, parents[child].parent)
             \o <<parents[child].action>>
    ELSE <<>>

\* VacuumBot.find_path
find_path(v) ==
    IF ~v.goal.some THEN <<>> ELSE find_path_from(v.parents, v.goal.state)

(* ------------------------------ state ---------------------------------- *)

VARIABLES
    hand,         \* PokerBot.hand: the player's hole cards
    board,        \* PokerBot.board: the community cards dealt so far
    deck,         \* PokerBot.deck: a reference to a Deck object of the heap
    heap,         \* the Deck objects and their card lists
    table,        \* HandEvaluator.hand_ranks: which table was loaded
    tree,         \* the MCTSNode objects; tree[1] is PokerBot.root
    pc,           \* where the search stands
    leaf,         \* search's local variable leaf
    result,       \* search's local variable result
    simulations,  \* search's local variable simulations
    win_prob,     \* search's return value, a fraction
    threshold,    \* make_decision's argument, a fraction
    decision,     \* make_decision's return value
    err,          \* the exception that ended the search, if any
    deck0,        \* history: the deck's cards when the engine was constructed
    history,      \* history: the node and outcome of each finished iteration
    gen,          \* history: what the step's call of generate_scenario returned
    cmp,          \* history: the step's call of compare_hands
    call,         \* deck and evaluator specifications: the last operation
    ret,          \* deck and evaluator specifications: what it returned
    ops,          \* deck and evaluator specifications: operations so far
    world,        \* the VacuumWorld read from the file
    vac,          \* the VacuumBot: start, goal, parents
    ucs           \* run_ucs's locals, and the path find_path gave main

vars == <<hand, board, deck, heap, table, tree, pc, leaf, result, simulations,
          win_prob, threshold, decision, err, deck0, history, gen, cmp, call,
          ret, ops, world, vac, ucs>>

\* No planner: no world was read.
NoPlanner ==
    /\ world = [nrows |-> 0, ncols |-> 0]
    /\ vac = [goal |-> NoGoal]
    /\ ucs = [pc |-> "none"]

(* ------------------------------ MCTSNode ------------------------------- *)

NoScenario == [some |-> FALSE, op |-> <<>>, nb |-> <<>>]

\* MCTSNode.__init__; parent 0 is None.
MCTSNode(h, b, parent, scenario) ==
    [hand |-> h, board |-> b, parent |-> parent, scenario |-> scenario,
     visits |-> 0, wins |-> 0, children |-> <<>>]

\* The child nodes of n in the order the dict yields them (insertion order:
\* a node made later has a higher identity).
children_of(t, n) == {t[n].children[k] : k \in DOMAIN t[n].children}

\* math.log(n) in millionths, for the visit counts a bounded run reaches.
ln_micro(n) ==
    CASE n = 1 -> 0
      [] n = 2 -> 693147
      [] n = 3 -> 1098612
      [] n = 4 -> 1386294
      [] n = 5 -> 1609438
      [] n = 6 -> 1791759
      [] n = 7 -> 1945910
      [] n = 8 -> 2079442
      [] n = 9 -> 2197225
      [] n = 10 -> 2302585
      [] n = 11 -> 2397895
      [] n = 12 -> 2484907

RECURSIVE isqrt_between(_, _, _)
\* The largest r in lo..hi with r * r <= x.
isqrt_between(x, lo, hi) ==
    IF lo >= hi THEN lo
    ELSE IF ((lo + hi + 1) \div 2) * ((lo + hi + 1) \div 2) <= x
         THEN isqrt_between(x, (lo + hi + 1) \div 2, hi)
         ELSE isqrt_between(x, lo, ((lo + hi + 1) \div 2) - 1)

\* math.sqrt of x / 10^8, in ten-thousandths.
sqrt_e4(x) == isqrt_between(x, 0, 16000)

(* MCTSNode.ucb1 with the default c = 1.414.  The float score is kept in   *)
(* ten-thousandths, rounded down: inf for an unvisited node, wins / visits *)
(* for the root, wins / visits + c * sqrt(log(parent.visits) / visits)     *)
(* otherwise; raised when math.log is handed 0.                            *)
ucb1(t, n) ==
    IF t[n].visits = 0 THEN [inf |-> TRUE, raised |-> FALSE, score |-> 0]
    ELSE IF t[n].parent = 0
    THEN [inf |-> FALSE, raised |-> FALSE,
          score |-> (t[n].wins * 10000) \div t[n].visits]
    ELSE IF t[t[n].parent].visits = 0
    THEN [inf |-> FALSE, raised |-> TRUE, score |-> 0]
    ELSE [inf |-> FALSE, raised |-> FALSE,
          score |-> (t[n].wins * 10000) \div t[n].visits
                    + (1414 * sqrt_e4((ln_micro(t[t[n].parent].visits) * 100)
                                          \div t[n].visits)) \div 1000]

\* a >= b for two scores.
ScoreGeq(a, b) == a.inf \/ (~b.inf /\ a.score >= b.score)

\* select_child taking the first child whatever the scores.
select_child_first(t, n) ==
    IF children_of(t, n) = {} THEN {[raised |-> FALSE, node |-> n]}
    ELSE IF \E c \in children_of(t, n) : ucb1(t, c).raised
         THEN {[raised |-> TRUE, node |-> n]}
    ELSE {[raised |-> FALSE,
           node |-> CHOOSE c \in children_of(t, n) :
                        \A e \in children_of(t, n) : c <= e]}

(* MCTSNode.select_child: max() keeps the first child of maximal score.    *)
(* A child is passed over if a sibling scores higher, or as high and      *)
(* comes first; the result is the one child left, or that ucb1 raised.    *)
select_child(t, n) ==
    LET cs == children_of(t, n)
        beaten(c) ==
            \E e \in cs :
                /\ e # c
                /\ ScoreGeq(ucb1(t, e), ucb1(t, c))
                /\ (e < c \/ ~ScoreGeq(ucb1(t, c), ucb1(t, e)))
    IN  IF cs = {} THEN {[raised |-> FALSE, node |-> n]}
        ELSE IF \E c \in cs : ucb1(t, c).raised
             THEN {[raised |-> TRUE, node |-> n]}
        ELSE {[raised |-> FALSE, node |-> c] : c \in {c \in cs : ~beaten(c)}}

(* ------------------------------ PokerBot ------------------------------- *)

\* generate_scenario without its guard on the deck's size.
generate_scenario_unguarded(h, d, brd, perm) ==
    With(copy(h, d), LAMBDA deck_copy :
    With(deal(shuffle(deck_copy.heap, deck_copy.ref, perm),
              deck_copy.ref, 2), LAMBDA op_hand :
    IF op_hand.raised
    THEN [heap |-> Release(op_hand.heap, deck_copy.ref),
          raised |-> TRUE, scenario |-> NoScenario]
    ELSE With(IF 5 - Len(brd) > 0
              THEN deal(op_hand.heap, deck_copy.ref, 5 - Len(brd))
              ELSE [heap |-> op_hand.heap, dealt |-> <<>>,
                    raised |-> FALSE], LAMBDA new_board :
         [heap |-> Release(new_board.heap, deck_copy.ref),
          raised |-> new_board.raised,
          scenario |-> IF new_board.raised THEN NoScenario
                       ELSE [some |-> TRUE, op |-> op_hand.dealt,
                             nb |-> new_board.dealt]])))

\* PokerBot.generate_scenario; perm is the outcome of the shuffle.  The
\* copy is dropped on return (unless it is the engine's own deck object).
generate_scenario(h, d, brd, perm) ==
    IF deck_len(h, d) = 0 \/ Len(cards_of(h, d)) < 2
    THEN [heap |-> h, raised |-> FALSE, scenario |-> NoScenario]
    ELSE With(copy(h, d), LAMBDA deck_copy :
         With(deal(shuffle(deck_copy.heap, deck_copy.ref, perm),
                   deck_copy.ref, 2), LAMBDA op_hand :
         IF op_hand.raised
         THEN [heap |-> IF deck_copy.ref = d THEN op_hand.heap
                        ELSE Release(op_hand.heap, deck_copy.ref),
               raised |-> TRUE, scenario |-> NoScenario]
         ELSE With(IF 5 - Len(brd) > 0
                   THEN deal(op_hand.heap, deck_copy.ref, 5 - Len(brd))
                   ELSE [heap |-> op_hand.heap, dealt |-> <<>>,
                         raised |-> FALSE], LAMBDA new_board :
              [heap |-> IF deck_copy.ref = d THEN new_board.heap
                        ELSE Release(new_board.heap, deck_copy.ref),
               raised |-> new_board.raised,
               scenario |-> IF new_board.raised THEN NoScenario
                            ELSE [some |-> TRUE, op |-> op_hand.dealt,
                                  nb |-> new_board.dealt]])))

RECURSIVE select_from(_, _)
\* The loop of PokerBot.select from node n: the nodes it may return.
select_from(t, n) ==
    IF DOMAIN t[n].children = {} THEN {[raised |-> FALSE, node |-> n]}
    ELSE UNION {IF s.raised THEN {s} ELSE select_from(t, s.node) :
                s \in select_child(t, n)}

\* select handing back the root without descending.
select_root(t) == {[raised |-> FALSE, node |-> 1]}

\* PokerBot.select
select(t) == select_from(t, 1)

\* The key taken of the two lists as they are, in order.
scenario_key_ordered(scenario) == <<scenario.op, scenario.nb>>

\* hash((frozenset(scenario[0]), frozenset(scenario[1]))): the two card
\* sets; the hash is taken to tell different pairs of sets apart.
scenario_key(scenario) == <<Range(scenario.op), Range(scenario.nb)>>

\* expand attaching the child but handing back the node it was given.
expand_returns_parent(t, node, h, d, brd, perm) ==
    With(generate_scenario(h, d, brd, perm), LAMBDA g :
    With(scenario_key(g.scenario), LAMBDA key :
    IF g.raised \/ ~g.scenario.some
    THEN [tree |-> t, node |-> node, heap |-> g.heap, raised |-> g.raised,
          gen |-> g]
    ELSE IF key \in DOMAIN t[node].children
    THEN [tree |-> t, node |-> node, heap |-> g.heap,
          raised |-> FALSE, gen |-> g]
    ELSE [tree |-> Append([t EXCEPT ![node].children =
                               (key :> (Len(t) + 1)) @@ @],
                          MCTSNode(t[node].hand, t[node].board, node,
                                   g.scenario)),
          node |-> node, heap |-> g.heap, raised |-> FALSE,
          gen |-> g]))

\* PokerBot.expand
expand(t, node, h, d, brd, perm) ==
    With(generate_scenario(h, d, brd, perm), LAMBDA g :
    With(scenario_key(g.scenario), LAMBDA key :
    IF g.raised \/ ~g.scenario.some
    THEN [tree |-> t, node |-> node, heap |-> g.heap, raised |-> g.raised,
          gen |-> g]
    ELSE IF key \in DOMAIN t[node].children
    THEN [tree |-> t, node |-> t[node].children[key], heap |-> g.heap,
          raised |-> FALSE, gen |-> g]
    ELSE [tree |-> Append([t EXCEPT ![node].children =
                               (key :> (Len(t) + 1)) @@ @],
                          MCTSNode(t[node].hand, t[node].board, node,
                                   g.scenario)),
          node |-> Len(t) + 1, heap |-> g.heap, raised |-> FALSE,
          gen |-> g]))

NoGen == [called |-> FALSE, raised |-> FALSE, scenario |-> NoScenario]

NoCmp == [called |-> FALSE, hand1 |-> <<>>, hand2 |-> <<>>, board |-> <<>>,
          raised |-> FALSE, result |-> 0]

\* simulate counting a tie as a win (result >= 0).
simulate_scenario_tie_wins(g, drawn, hnd, brd, kind) ==
    With(compare_hands(kind, AsCards(hnd), AsCards(g.scenario.op),
                       AsCards(brd \o g.scenario.nb)), LAMBDA c :
    [result |-> IF ~c.raised /\ c.result >= 0 THEN 1 ELSE 0,
     raised |-> c.raised,
     err |-> IF c.raised THEN "compare_hands " \o c.err ELSE "",
     heap |-> g.heap, gen |-> drawn,
     cmp |-> [called |-> TRUE, hand1 |-> hnd, hand2 |-> g.scenario.op,
              board |-> brd \o g.scenario.nb, raised |-> c.raised,
              result |-> c.result]])

\* PokerBot.simulate, from the scenario on (lines 113-117).
simulate_scenario(g, drawn, hnd, brd, kind) ==
    With(compare_hands(kind, AsCards(hnd), AsCards(g.scenario.op),
                       AsCards(brd \o g.scenario.nb)), LAMBDA c :
    [result |-> IF ~c.raised /\ c.result = 1 THEN 1 ELSE 0,
     raised |-> c.raised,
     err |-> IF c.raised THEN "compare_hands " \o c.err ELSE "",
     heap |-> g.heap, gen |-> drawn,
     cmp |-> [called |-> TRUE, hand1 |-> hnd, hand2 |-> g.scenario.op,
              board |-> brd \o g.scenario.nb, raised |-> c.raised,
              result |-> c.result]])

\* PokerBot.simulate
simulate(t, node, h, d, hnd, brd, kind, perm) ==
    IF t[node].scenario.some
    THEN simulate_scenario([heap |-> h, scenario |-> t[node].scenario],
                           NoGen, hnd, brd, kind)
    ELSE With(generate_scenario(h, d, brd, perm), LAMBDA g :
         IF g.raised \/ ~g.scenario.some
         THEN [result |-> 0, raised |-> g.raised,
               err |-> IF g.raised THEN "Deck.deal ValueError" ELSE "",
               heap |-> g.heap,
               gen |-> [called |-> TRUE, raised |-> g.raised,
                        scenario |-> g.scenario],
               cmp |-> NoCmp]
         ELSE simulate_scenario(g, [called |-> TRUE, raised |-> FALSE,
                                    scenario |-> g.scenario],
                                hnd, brd, kind))

RECURSIVE backpropagate_swapped(_, _, _)
\* backpropagate with the two increments swapped.
backpropagate_swapped(t, node, res) ==
    IF node = 0 THEN t
    ELSE backpropagate_swapped([t EXCEPT ![node].visits = @ + res,
                                         ![node].wins = @ + 1],
                               t[node].parent, res)

RECURSIVE backpropagate_skips_root(_, _, _)
\* backpropagate stopping below the root (while node.parent is not None).
backpropagate_skips_root(t, node, res) ==
    IF node = 0 \/ t[node].parent = 0 THEN t
    ELSE backpropagate_skips_root([t EXCEPT ![node].visits = @ + 1,
                                            ![node].wins = @ + res],
                                  t[node].parent, res)

\* backpropagate updating the node alone, without the walk to the root.
backpropagate_leaf_only(t, node, res) ==
    IF node = 0 THEN t
    ELSE [t EXCEPT ![node].visits = @ + 1, ![node].wins = @ + res]

RECURSIVE backpropagate(_, _, _)
\* PokerBot.backpropagate
backpropagate(t, node, res) ==
    IF node = 0 THEN t
    ELSE backpropagate([t EXCEPT ![node].visits = @ + 1,
                                 ![node].wins = @ + res],
                       t[node].parent, res)

\* search's last statement before returning: the win probability.
root_probability(t) ==
    IF t[1].visits > 0 THEN <<t[1].wins, t[1].visits>> ELSE <<0, 1>>

\* p >= q for fractions with positive denominators.
FracGeq(p, q) == p[1] * q[2] >= q[1] * p[2]

\* decide with a strict comparison.
decide_strict(p, thr) == IF ~FracGeq(thr, p) THEN "STAY" ELSE "FOLD"

\* make_decision's choice once search has returned.
decide(p, thr) == IF FracGeq(p, thr) THEN "STAY" ELSE "FOLD"

(* --------------------------- the search loop --------------------------- *)

\* The cards a modelled game is played with: hole cards, the community
\* cards in the order they come, and the cards left in the deck.
HandCards == <<30, 20>>

BoardPool == <<5, 9, 14, 18, 23>>

DeckPool == <<10, 3, 40, 35, 45, 50>>

\* The thresholds a caller may pass to make_decision (0.5 is the default).
Thresholds == {<<0, 1>>, <<1, 2>>, <<4, 5>>, <<1, 1>>}

Idle ==
    /\ call = [op |-> "none"]
    /\ ret = [raised |-> FALSE]
    /\ ops = 0
    /\ NoPlanner

\* A call of search or make_decision about to enter the loop.
SearchStart ==
    /\ pc = "loop"
    /\ leaf = 0
    /\ result = 0
    /\ simulations = 0
    /\ win_prob = <<0, 1>>
    /\ threshold = <<0, 1>>
    /\ decision = ""
    /\ err = ""
    /\ history = <<>>
    /\ gen = NoGen
    /\ cmp = NoCmp

\* PokerBot.__init__ with a deck of n cards and a board of b cards, and
\* the statistics (0, 0 as constructed) the root holds when search starts.
PokerBot_init(b, n, kind, w, v) ==
    /\ hand = HandCards
    /\ board = SubSeq(BoardPool, 1, b)
    /\ heap = [decks |-> (1 :> 1), lists |-> (1 :> SubSeq(DeckPool, 1, n))]
    /\ deck = 1
    /\ deck0 = SubSeq(DeckPool, 1, n)
    /\ table = kind
    /\ tree = <<[MCTSNode(HandCards, SubSeq(BoardPool, 1, b), 0, NoScenario)
                    EXCEPT !.wins = w, !.visits = v]>>
    /\ SearchStart

Init ==
    /\ \E b \in 0..5, n \in 0..MaxDeck, kind \in TableKinds :
           PokerBot_init(b, n, kind, 0, 0)
    /\ Idle

\* search, lines 135-136: the deadline has not passed; leaf = self.select().
SearchSelect ==
    /\ pc = "loop"
    /\ simulations < MaxIter
    /\ \E s \in select(tree) :
           /\ leaf' = s.node
           /\ pc' = IF s.raised THEN "raised" ELSE "selected"
           /\ err' = IF s.raised THEN "math.log ValueError" ELSE err
    /\ gen' = NoGen
    /\ cmp' = NoCmp
    /\ UNCHANGED <<hand, board, deck, heap, table, tree, result, simulations,
                   win_prob, threshold, decision, deck0, history, call, ret,
                   ops,
                   world, vac, ucs>>

\* The expansion step without the test of leaf.visits.
SearchExpandAlways ==
    /\ pc = "selected"
    /\ \E perm \in PermsOf(deck_len(heap, deck)) :
           \E e \in {expand(tree, leaf, heap, deck, board, perm)} :
               /\ tree' = e.tree
               /\ leaf' = e.node
               /\ heap' = e.heap
               /\ gen' = [called |-> TRUE, raised |-> e.gen.raised,
                          scenario |-> e.gen.scenario]
               /\ pc' = IF e.raised THEN "raised" ELSE "expanded"
               /\ err' = IF e.raised THEN "Deck.deal ValueError" ELSE err
    /\ cmp' = NoCmp
    /\ UNCHANGED <<hand, board, deck, table, result, simulations, win_prob,
                   threshold, decision, deck0, history, call, ret, ops,
                   world, vac, ucs>>

\* search, lines 137-138: expand the leaf if it has been visited.
SearchExpand ==
    /\ pc = "selected"
    /\ IF tree[leaf].visits > 0
       THEN \E perm \in PermsOf(deck_len(heap, deck)) :
                \E e \in {expand(tree, leaf, heap, deck, board, perm)} :
                    /\ tree' = e.tree
                    /\ leaf' = e.node
                    /\ heap' = e.heap
                    /\ gen' = [called |-> TRUE, raised |-> e.gen.raised,
                               scenario |-> e.gen.scenario]
                    /\ pc' = IF e.raised THEN "raised" ELSE "expanded"
                    /\ err' = IF e.raised THEN "Deck.deal ValueError" ELSE err
       ELSE /\ pc' = "expanded"
            /\ gen' = NoGen
            /\ UNCHANGED <<tree, leaf, heap, err>>
    /\ cmp' = NoCmp
    /\ UNCHANGED <<hand, board, deck, table, result, simulations, win_prob,
                   threshold, decision, deck0, history, call, ret, ops,
                   world, vac, ucs>>

\* The simulation step keeping the scenario sampled for the root on it.
SearchSimulateKeepsScenario ==
    /\ pc = "expanded"
    /\ \E perm \in (IF tree[leaf].scenario.some THEN {<<>>}
                    ELSE PermsOf(deck_len(heap, deck))) :
           \E s \in {simulate(tree, leaf, heap, deck, hand, board, table, perm)} :
               /\ result' = s.result
               /\ heap' = s.heap
               /\ gen' = s.gen
               /\ cmp' = s.cmp
               /\ pc' = IF s.raised THEN "raised" ELSE "simulated"
               /\ err' = IF s.raised THEN s.err ELSE err
               /\ tree' = IF s.gen.called /\ s.gen.scenario.some
                          THEN [tree EXCEPT ![leaf].scenario = s.gen.scenario]
                          ELSE tree
    /\ UNCHANGED <<hand, board, deck, table, leaf, simulations, win_prob,
                   threshold, decision, deck0, history, call, ret, ops,
                   world, vac, ucs>>

\* search, line 139: result = self.simulate(leaf).
SearchSimulate ==
    /\ pc = "expanded"
    /\ \E perm \in (IF tree[leaf].scenario.some THEN {<<>>}
                    ELSE PermsOf(deck_len(heap, deck))) :
           \E s \in {simulate(tree, leaf, heap, deck, hand, board, table, perm)} :
               /\ result' = s.result
               /\ heap' = s.heap
               /\ gen' = s.gen
               /\ cmp' = s.cmp
               /\ pc' = IF s.raised THEN "raised" ELSE "simulated"
               /\ err' = IF s.raised THEN s.err ELSE err
    /\ UNCHANGED <<hand, board, deck, table, tree, leaf, simulations, win_prob,
                   threshold, decision, deck0, history, call, ret, ops,
                   world, vac, ucs>>

\* search, lines 140-141: backpropagate and count the simulation.
SearchBackpropagate ==
    /\ pc = "simulated"
    /\ tree' = backpropagate(tree, leaf, result)
    /\ simulations' = simulations + 1
    /\ history' = Append(history, [node |-> leaf, result |-> result])
    /\ pc' = "loop"
    /\ gen' = NoGen
    /\ cmp' = NoCmp
    /\ UNCHANGED <<hand, board, deck, heap, table, leaf, result, win_prob,
                   threshold, decision, err, deck0, call, ret, ops,
                   world, vac, ucs>>

\* search, lines 135 and 143-148: the deadline has passed; return win_prob.
SearchReturn ==
    /\ pc = "loop"
    /\ win_prob' = root_probability(tree)
    /\ pc' = "returned"
    /\ UNCHANGED <<hand, board, deck, heap, table, tree, leaf, result,
                   simulations, threshold, decision, err, deck0, history, gen,
                   cmp, call, ret, ops,
                   world, vac, ucs>>

\* make_decision, lines 159-163, once its call of search has returned.
MakeDecision ==
    /\ pc = "returned"
    /\ \E thr \in Thresholds :
           /\ threshold' = thr
           /\ decision' = decide(win_prob, thr)
    /\ pc' = "decided"
    /\ UNCHANGED <<hand, board, deck, heap, table, tree, leaf, result,
                   simulations, win_prob, err, deck0, history, gen, cmp, call,
                   ret, ops,
                   world, vac, ucs>>

Next ==
    \/ SearchSelect
    \/ SearchExpand
    \/ SearchSimulate
    \/ SearchBackpropagate
    \/ SearchReturn
    \/ MakeDecision

Spec == Init /\ [][Next]_vars

(* A decision taken on a root whose statistics were set beforehand, with  *)
(* a time limit of 0: the loop body never runs.                            *)
InitDecision ==
    /\ \E v \in 0..MaxFixture : \E w \in 0..v :
           PokerBot_init(5, 2, "max", w, v)
    /\ Idle

NextDecision ==
    \/ SearchReturn
    \/ MakeDecision

SpecDecision == InitDecision /\ [][NextDecision]_vars

(* ------------------------- the search: properties ---------------------- *)

\* C1: at every point of a search every node has 0 <= wins <= visits, and
\* the probability search returns is root.wins / root.visits (0 for an
\* unvisited root), a fraction in [0, 1].
C1_ProbabilityBound ==
    /\ \A n \in 1..Len(tree) :
           0 <= tree[n].wins /\ tree[n].wins <= tree[n].visits
    /\ pc \in {"returned", "decided"} =>
           /\ win_prob = IF tree[1].visits = 0 THEN <<0, 1>>
                         ELSE <<tree[1].wins, tree[1].visits>>
           /\ win_prob[2] > 0
           /\ 0 <= win_prob[1]
           /\ win_prob[1] <= win_prob[2]

\* A search that returned after winning and losing simulations.
C1_Witness ==
    /\ pc = "returned"
    /\ tree[1].wins >= 1
    /\ tree[1].wins < tree[1].visits
    /\ Len(tree) >= 2

\* C2: with fewer than 2 cards in the deck generate_scenario returns None,
\* no step raises, the tree stays the root alone (expand hands back the
\* leaf it was given), simulate scores 0, and search returns 0.
C2_ExhaustedDeck ==
    deck_len(heap, deck) < 2 =>
        /\ pc # "raised"
        /\ err = ""
        /\ gen.called => ~gen.raised /\ ~gen.scenario.some
        /\ Len(tree) = 1
        /\ pc \in {"selected", "expanded", "simulated"} => leaf = 1
        /\ pc = "simulated" => result = 0
        /\ tree[1].wins = 0
        /\ pc \in {"returned", "decided"} =>
               win_prob[1] = 0 /\ win_prob[2] > 0

\* A search on a one-card deck that returned after an iteration in which
\* expand was tried (the root had been visited).
C2_Witness ==
    /\ deck_len(heap, deck) = 1
    /\ pc = "returned"
    /\ simulations >= 2
    /\ tree[1].visits >= 2

\* C3: whenever the deck is too small for a full scenario (fewer than
\* 2 + (5 - len(board)) cards), no search step raises.
C3_InsufficientDeckNeverRaises ==
    deck_len(heap, deck) < 2 + (5 - Len(board)) => pc # "raised"

\* C4: the engine's deck holds the cards it held at construction, in the
\* same order, and is the only deck object left after a step.
C4_DeckUntouched ==
    /\ cards_of(heap, deck) = deck0
    /\ DOMAIN heap.decks = {deck}

\* A scenario was sampled whose opponent cards are not the deck's first two.
C4_Witness ==
    /\ gen.called
    /\ gen.scenario.some
    /\ gen.scenario.op # SubSeq(deck0, 1, 2)
    /\ simulations >= 1

ScenarioShape(sc) ==
    /\ Len(sc.op) = 2
    /\ Len(sc.nb) = 5 - Len(board)
    /\ Distinct(sc.op \o sc.nb)
    /\ Range(sc.op \o sc.nb) \subseteq Range(deck0)

\* C5: a sampled scenario is 2 opponent cards and 5 - len(board) board
\* cards, pairwise distinct and all from the deck; every comparison of a
\* search is of two 2-card hands over a 5-card board, 9 distinct cards, and
\* the evaluator's size checks never fail.
C5_ScenarioShape ==
    /\ gen.called /\ gen.scenario.some => ScenarioShape(gen.scenario)
    /\ \A n \in 1..Len(tree) :
           tree[n].scenario.some => ScenarioShape(tree[n].scenario)
    /\ cmp.called =>
           /\ Len(cmp.hand1) = 2
           /\ Len(cmp.hand2) = 2
           /\ Len(cmp.board) = 5
           /\ Distinct(cmp.hand1 \o cmp.hand2 \o cmp.board)
           /\ ~cmp.raised
    /\ pc = "raised" => err = "Deck.deal ValueError"

\* A node's own scenario, with a sampled board card, was compared.
C5_Witness ==
    /\ pc = "simulated"
    /\ cmp.called
    /\ tree[leaf].scenario.some
    /\ Len(tree[leaf].scenario.nb) >= 1
    /\ cmp.hand2 = tree[leaf].scenario.op

\* C6: the decision is STAY exactly when root.wins / root.visits (0 for an
\* unvisited root) is at least the threshold, else FOLD; 7 wins in 10
\* visits give STAY at 1/2 and FOLD at 4/5.
C6_DecisionThreshold ==
    /\ pc \in {"returned", "decided"} /\ tree[1].visits = 0 =>
           win_prob = <<0, 1>>
    /\ pc = "decided" =>
           /\ decision \in {"STAY", "FOLD"}
           /\ decision = "STAY" <=>
                  IF tree[1].visits = 0 THEN threshold[1] <= 0
                  ELSE tree[1].wins * threshold[2]
                           >= threshold[1] * tree[1].visits
           /\ tree[1].wins = 7 /\ tree[1].visits = 10 =>
                  /\ threshold = <<1, 2>> => decision = "STAY"
                  /\ threshold = <<4, 5>> => decision = "FOLD"

\* 7 wins in 10 visits were judged against 4/5.
C6_Witness ==
    /\ pc = "decided"
    /\ tree[1].wins = 7
    /\ tree[1].visits = 10
    /\ threshold = <<4, 5>>
    /\ decision = "FOLD"

\* C13 as stated: the root is simulated only when no scenario could be
\* sampled and the tree is the root alone; whenever a scenario is at hand
\* the simulated node is a node other than the root with its own scenario.
C13_RootOnlyWhenCollapsed ==
    pc = "simulated" =>
        IF leaf = 1
        THEN gen.called /\ ~gen.scenario.some /\ Len(tree) = 1
        ELSE tree[leaf].scenario.some

\* C13, amended: the node simulated is the root exactly in the first
\* iteration of a search (the unvisited root is not expanded) and in any
\* iteration on a deck of fewer than 2 cards; the tree is then the root
\* alone and a scenario is sampled for the one simulation if the deck
\* allows.  Any other simulated node is not the root and carries its own
\* scenario, and none is sampled for it.
C13_RootSimulation ==
    /\ pc \in {"expanded", "simulated"} =>
           /\ leaf = 1 <=> (simulations = 0 \/ deck_len(heap, deck) < 2)
           /\ leaf = 1 => ~tree[leaf].scenario.some /\ Len(tree) = 1
           /\ leaf # 1 => tree[leaf].scenario.some
    /\ pc = "simulated" =>
           IF leaf = 1
           THEN /\ gen.called
                /\ gen.scenario.some <=> deck_len(heap, deck) >= 2
                /\ cmp.called <=> gen.scenario.some
                /\ cmp.called => cmp.hand2 = gen.scenario.op
           ELSE /\ ~gen.called
                /\ cmp.called
                /\ cmp.hand2 = tree[leaf].scenario.op

\* The first iteration simulated the root on a scenario sampled for it.
C13_Witness ==
    /\ pc = "simulated"
    /\ leaf = 1
    /\ simulations = 0
    /\ gen.called
    /\ gen.scenario.some
    /\ cmp.called

\* Where a node without visits may be, and what holds between iterations.
VisitedBetweenIterations ==
    /\ \A n \in 2..Len(tree) :
           tree[n].visits = 0 =>
               /\ n = leaf
               /\ n = Len(tree)
               /\ pc \in {"expanded", "simulated"}
    /\ pc \in {"loop", "returned", "decided"} =>
           \A n \in 1..Len(tree) :
               /\ n # 1 => tree[n].visits >= 1
               /\ DOMAIN tree[n].children # {} => tree[n].visits >= 1
               /\ ~ucb1(tree, n).raised
    /\ pc = "raised" => Len(tree) = 1 /\ err # "math.log ValueError"

\* What a step of an iteration does with the leaf.
ExpandThenSimulate ==
    /\ pc = "selected" => (gen'.called <=> tree[leaf].visits >= 1)
    /\ Len(tree') > Len(tree) =>
           /\ pc = "selected"
           /\ pc' = "expanded"
           /\ leaf' = Len(tree')
           /\ tree'[leaf'].visits = 0
    /\ pc = "expanded" /\ tree[leaf].scenario.some => pc' = "simulated"
    /\ pc = "simulated" =>
           pc' = "loop" /\ tree'[leaf].visits = tree[leaf].visits + 1

\* C14: the expansion step samples a scenario exactly when the selected
\* leaf has a visit; a node without visits, other than the root, is the
\* leaf just made, which is simulated and backpropagated next; between
\* iterations every node but the root, and every node with children, has
\* a visit, no search is ended by an error once a child exists, and ucb1
\* never takes the logarithm of 0.
C14_ExpandIffVisited ==
    []VisitedBetweenIterations /\ [][ExpandThenSimulate]_vars

\* A leaf with a visit was expanded into a new node, yet to be simulated.
C14_Witness ==
    /\ pc = "expanded"
    /\ gen.called
    /\ Len(tree) >= 3
    /\ leaf = Len(tree)
    /\ tree[leaf].visits = 0
    /\ tree[tree[leaf].parent].visits >= 1

\* What a step may do to the tree: add one node at the end, in the
\* expansion step only, and raise counts; nothing else.
TreeStep ==
    /\ Len(tree') \in {Len(tree), Len(tree) + 1}
    /\ Len(tree') > Len(tree) => pc = "selected" /\ gen'.called
    /\ pc \in {"expanded", "simulated"} =>
           /\ Len(tree') = Len(tree)
           /\ \A n \in 1..Len(tree) : tree'[n].children = tree[n].children
    /\ \A n \in 1..Len(tree) :
           /\ tree'[n].parent = tree[n].parent
           /\ tree'[n].hand = tree[n].hand
           /\ tree'[n].board = tree[n].board
           /\ tree'[n].scenario = tree[n].scenario
           /\ tree'[n].visits >= tree[n].visits
           /\ tree'[n].wins >= tree[n].wins
           /\ \A k \in DOMAIN tree[n].children :
                  /\ k \in DOMAIN tree'[n].children
                  /\ tree'[n].children[k] = tree[n].children[k]

\* C16: no step of a search removes a node or changes a node's parent,
\* hand, board or scenario, or lowers its visits or wins, or drops a
\* child; a node is added only by the expansion step, never by simulate
\* (a scenario sampled for the root stays off the tree) or backpropagate,
\* so there is at most one more node than finished iterations, two while
\* an iteration is at work on a leaf.
C16_AppendOnly ==
    /\ [][TreeStep]_vars
    /\ [](Len(tree) <= 1 + Len(history)
                          + (IF pc \in {"expanded", "simulated"} THEN 1
                             ELSE 0))

\* A tree that grew to three nodes, the first iteration having simulated
\* the root and the second node having been visited twice.
C16_Witness ==
    /\ pc = "loop"
    /\ Len(tree) = 3
    /\ tree[2].visits = 2
    /\ ~tree[1].scenario.some
    /\ history[1].node = 1

\* C17: simulate returns 1 exactly when compare_hands reports the player's
\* hand (with the board and the scenario's board cards) strictly stronger
\* than the opponent's, and 0 when it is weaker, tied, or no scenario is
\* to be had.
C17_BinaryOutcome ==
    pc = "simulated" =>
        /\ result \in {0, 1}
        /\ ~cmp.called => result = 0 /\ gen.called /\ ~gen.scenario.some
        /\ cmp.called =>
               /\ cmp.hand1 = hand
               /\ result = 1 <=> cmp.result = 1
               /\ result = 1 <=>
                      evaluate_hand(table,
                                    AsCards(cmp.hand1 \o cmp.board)).value
                        > evaluate_hand(table,
                                        AsCards(cmp.hand2 \o cmp.board)).value

\* A tie was scored 0.
C17_Witness ==
    /\ pc = "simulated"
    /\ cmp.called
    /\ cmp.hand1 # cmp.hand2
    /\ cmp.result = 0
    /\ result = 0

\* The tree is one chain, and select hands back its end.
SingleChain ==
    /\ \A n \in 1..Len(tree) :
           /\ Cardinality(DOMAIN tree[n].children) <= 1
           /\ Cardinality(children_of(tree, n)) <= 1
           /\ tree[n].parent = n - 1
           /\ n < Len(tree) => children_of(tree, n) = {n + 1}
    /\ DOMAIN tree[Len(tree)].children = {}
    /\ pc = "selected" => leaf = Len(tree)

\* An expansion that samples a scenario makes a new node: no child is reused.
NeverReused ==
    pc = "selected" /\ gen'.called /\ gen'.scenario.some =>
        /\ Len(tree') = Len(tree) + 1
        /\ leaf' = Len(tree')
        /\ DOMAIN tree[leaf].children = {}

\* C19: every node has at most one child, node n + 1 being the child of
\* node n; select returns the last node, which has no children, so expand
\* never finds the sampled fingerprint among the children of its node and
\* select_child never has two siblings to compare.
C19_TreeIsChain ==
    []SingleChain /\ [][NeverReused]_vars

\* A chain of three nodes whose middle node holds the last as only child.
C19_Witness ==
    /\ Len(tree) = 3
    /\ children_of(tree, 1) = {2}
    /\ children_of(tree, 2) = {3}
    /\ tree[3].visits = 1

RECURSIVE SumOver(_, _)
\* The sum of f over the set S.
SumOver(f, S) ==
    IF S = {} THEN 0
    ELSE f[CHOOSE x \in S : TRUE]
             + SumOver(f, S \ {CHOOSE x \in S : TRUE})

\* The finished iterations simulated at node n, and those among them won.
SimulatedAt(n) == {i \in 1..Len(history) : history[i].node = n}

WonAt(n) == {i \in SimulatedAt(n) : history[i].result = 1}

\* C20: between iterations root.visits is the number of finished
\* iterations and root.wins the number of them whose outcome was 1; each
\* node's visits is the number of simulations at it plus its children's
\* visits, and its wins the number of those won plus its children's wins.
C20_VisitAccounting ==
    pc \in {"loop", "returned", "decided"} =>
        /\ Len(history) = simulations
        /\ tree[1].visits = simulations
        /\ tree[1].wins
               = Cardinality({i \in 1..Len(history) : history[i].result = 1})
        /\ \A n \in 1..Len(tree) :
               /\ tree[n].visits
                      = Cardinality(SimulatedAt(n))
                        + SumOver([c \in 1..Len(tree) |-> tree[c].visits],
                                  children_of(tree, n))
               /\ tree[n].wins
                      = Cardinality(WonAt(n))
                        + SumOver([c \in 1..Len(tree) |-> tree[c].wins],
                                  children_of(tree, n))

\* Three iterations, at three nodes, the second of them won alone.
C20_Witness ==
    /\ pc = "returned"
    /\ simulations = 3
    /\ history[1].node = 1 /\ history[2].node = 2 /\ history[3].node = 3
    /\ history[1].result = 0 /\ history[2].result = 1
    /\ history[3].result = 0
    /\ tree[1].wins = 1
    /\ tree[2].visits = 2

(* ------------------------- Deck on its own ----------------------------- *)
(* A program holding Deck objects: it starts with Deck() and shuffles,     *)
(* deals from and copies the decks it holds.  call records the operation   *)
(* and the heap before it, ret what the operation returned.                *)

\* No engine: the search's variables stay as they are.
NoSearch ==
    /\ hand = <<>>
    /\ board = <<>>
    /\ deck = 0
    /\ deck0 = <<>>
    /\ tree = <<>>
    /\ pc = "idle"
    /\ leaf = 0
    /\ result = 0
    /\ simulations = 0
    /\ win_prob = <<0, 1>>
    /\ threshold = <<0, 1>>
    /\ decision = ""
    /\ err = ""
    /\ history = <<>>
    /\ gen = NoGen
    /\ cmp = NoCmp
    /\ NoPlanner

searchFrame == <<hand, board, deck, deck0, tree, pc, leaf, result, simulations,
                 win_prob, threshold, decision, err, history, gen, cmp,
                 world, vac, ucs>>

Reversal(n) == [i \in 1..n |-> n + 1 - i]

SwapFirst(n) == [i \in 1..n |-> IF i = 1 THEN 2 ELSE IF i = 2 THEN 1 ELSE i]

\* The outcomes of a shuffle that are tried: every permutation of a small
\* deck; of a larger one its reversal and the swap of its first two cards.
ShuffleInputs(n) ==
    IF n <= MaxDeck THEN PermsOf(n) ELSE {Reversal(n), SwapFirst(n)}

\* The numbers of cards asked of a deck of n: none, a few, all but two,
\* all, one too many.
DealInputs(n) == {0, 1, 2, n, n + 1} \cup (IF n >= 2 THEN {n - 2} ELSE {})

InitDeck ==
    /\ heap = Deck_init(EmptyHeap).heap
    /\ table = "max"
    /\ call = [op |-> "Deck", deck |-> 1, n |-> 0, before |-> EmptyHeap]
    /\ ret = [raised |-> FALSE, dealt |-> <<>>, ref |-> 1]
    /\ ops = 0
    /\ NoSearch

DeckShuffle ==
    /\ ops < MaxOps
    /\ \E d \in DOMAIN heap.decks :
       \E perm \in ShuffleInputs(deck_len(heap, d)) :
           /\ heap' = shuffle(heap, d, perm)
           /\ call' = [op |-> "shuffle", deck |-> d, n |-> 0, before |-> heap]
           /\ ret' = [raised |-> FALSE, dealt |-> <<>>, ref |-> d]
    /\ ops' = ops + 1
    /\ UNCHANGED <<searchFrame, table>>

DeckDeal ==
    /\ ops < MaxOps
    /\ \E d \in DOMAIN heap.decks :
       \E n \in DealInputs(deck_len(heap, d)) :
       \E r \in {deal(heap, d, n)} :
           /\ heap' = r.heap
           /\ call' = [op |-> "deal", deck |-> d, n |-> n, before |-> heap]
           /\ ret' = [raised |-> r.raised, dealt |-> r.dealt, ref |-> d]
    /\ ops' = ops + 1
    /\ UNCHANGED <<searchFrame, table>>

DeckCopy ==
    /\ ops < MaxOps
    /\ Cardinality(DOMAIN heap.decks) < MaxDecks
    /\ \E d \in DOMAIN heap.decks :
       \E r \in {copy(heap, d)} :
           /\ heap' = r.heap
           /\ call' = [op |-> "copy", deck |-> d, n |-> 0, before |-> heap]
           /\ ret' = [raised |-> FALSE, dealt |-> <<>>, ref |-> r.ref]
    /\ ops' = ops + 1
    /\ UNCHANGED <<searchFrame, table>>

NextDeck ==
    \/ DeckShuffle
    \/ DeckDeal
    \/ DeckCopy

SpecDeck == InitDeck /\ [][NextDeck]_vars

\* C7: deal(n) with 0 <= n <= len returns the first n cards in order and
\* leaves the other len - n; the dealt cards are pairwise distinct, none is
\* left in the deck, and dealt followed by the rest is the deck as it was.
\* With n > len it raises and the deck is as it was.
C7_DealConservation ==
    call.op = "deal" =>
        IF call.n <= Len(cards_of(call.before, call.deck))
        THEN /\ ~ret.raised
             /\ ret.dealt = SubSeq(cards_of(call.before, call.deck), 1, call.n)
             /\ deck_len(heap, call.deck)
                    = deck_len(call.before, call.deck) - call.n
             /\ Distinct(ret.dealt)
             /\ Range(ret.dealt) \cap Range(cards_of(heap, call.deck)) = {}
             /\ ret.dealt \o cards_of(heap, call.deck)
                    = cards_of(call.before, call.deck)
        ELSE /\ ret.raised
             /\ heap = call.before

\* Two cards were dealt from a deck that was not in its first order.
C7_Witness ==
    /\ call.op = "deal"
    /\ call.n = 2
    /\ ~ret.raised
    /\ ret.dealt # <<1, 5>>
    /\ deck_len(heap, call.deck) = 50

\* C8: copy returns a new deck with the original's cards in the same
\* order, and no operation on one deck changes the cards of another: a
\* copy and its original go their own ways.
C8_CopyIndependent ==
    /\ call.op = "copy" =>
           /\ ret.ref \notin DOMAIN call.before.decks
           /\ cards_of(heap, ret.ref) = cards_of(call.before, call.deck)
           /\ \A d \in DOMAIN call.before.decks :
                  d \in DOMAIN heap.decks
                  /\ cards_of(heap, d) = cards_of(call.before, d)
    /\ call.op \in {"shuffle", "deal"} =>
           \A d \in DOMAIN call.before.decks \ {call.deck} :
               d \in DOMAIN heap.decks
               /\ cards_of(heap, d) = cards_of(call.before, d)

\* A copy was shuffled and now differs from its original.
C8_Witness ==
    /\ call.op = "shuffle"
    /\ call.deck = 2
    /\ DOMAIN heap.decks = {1, 2}
    /\ cards_of(call.before, 2) = cards_of(call.before, 1)
    /\ cards_of(heap, 2) # cards_of(heap, 1)

(* ----------------------- HandEvaluator on its own ---------------------- *)
(* One call of evaluate_hand or compare_hands on a loaded evaluator: call  *)
(* records the call, ret what it returned or that it raised.               *)

SeqsUpTo(S, n) == UNION {[1..k -> S] : k \in 0..n}

\* What evaluate_hand is handed: a Card, a card code, an integer no card has.
EvalPool == {PyCard(30), PyStr(<<"K", "d">>), PyInt(53)}

\* The cards hands are made of: the 9 of hearts and of spades, the 6 of clubs.
HandPool == {PyCard(29), PyCard(30), PyCard(20)}

\* The boards: 4 to 6 cards of two deals.
BoardInputs ==
    {SubSeq(AsCards(b), 1, k) :
        b \in {<<5, 9, 14, 18, 23, 27>>, <<41, 9, 14, 18, 23, 27>>},
        k \in 4..6}

InitEval ==
    /\ table \in TableKinds
    /\ heap = EmptyHeap
    /\ call = [op |-> "none"]
    /\ ret = [raised |-> FALSE]
    /\ ops = 0
    /\ NoSearch

EvaluateHand ==
    /\ call.op = "none"
    /\ \E cards \in SeqsUpTo(EvalPool, MaxEvalLen) :
           /\ call' = [op |-> "evaluate_hand", cards |-> cards]
           /\ ret' = evaluate_hand(table, cards)
    /\ UNCHANGED <<searchFrame, heap, table, ops>>

CompareHands ==
    /\ call.op = "none"
    /\ \E hand1, hand2 \in SeqsUpTo(HandPool, MaxHandLen) :
       \E b \in BoardInputs :
           /\ call' = [op |-> "compare_hands", hand1 |-> hand1,
                       hand2 |-> hand2, board |-> b]
           /\ ret' = compare_hands(table, hand1, hand2, b)
    /\ UNCHANGED <<searchFrame, heap, table, ops>>

NextEval ==
    \/ EvaluateHand
    \/ CompareHands

SpecEval == InitEval /\ [][NextEval]_vars

\* C9: for 2-card hands A, B and a 5-card board, compare_hands(B, A, board)
\* returns the negated result with the two evaluations swapped; the result
\* is 0, 1, -1 exactly when A's strength equals, exceeds, is below B's.
C9_CompareNegation ==
    call.op = "compare_hands" /\ ~ret.raised =>
        With(compare_hands(table, call.hand2, call.hand1, call.board),
             LAMBDA swapped :
             /\ ~swapped.raised
             /\ swapped.result = 0 - ret.result
             /\ swapped.eval1 = ret.eval2
             /\ swapped.eval2 = ret.eval1
             /\ ret.result \in {-1, 0, 1}
             /\ ret.result = 0 <=> ret.eval1.value = ret.eval2.value
             /\ ret.result = 1 <=> ret.eval1.value > ret.eval2.value
             /\ ret.result = -1 <=> ret.eval1.value < ret.eval2.value)

\* Two different hands of equal strength were compared.
C9_Witness ==
    /\ call.op = "compare_hands"
    /\ ~ret.raised
    /\ call.hand1 # call.hand2
    /\ ret.result = 0
    /\ table = "sum"

\* C10: evaluate_hand raises for every list that is not of 7 cards, and
\* compare_hands raises when a hand is not of 2 cards or the board not of 5.
C10_SizeEnforcement ==
    /\ call.op = "evaluate_hand" /\ Len(call.cards) # 7 =>
           ret.raised /\ ret.err = "ValueError"
    /\ call.op = "compare_hands"
       /\ (Len(call.hand1) # 2 \/ Len(call.hand2) # 2 \/ Len(call.board) # 5)
       => ret.raised /\ ret.err = "ValueError"

\* Hands of 3 cards over a board of 4 (7 cards each way) were refused.
C10_Witness ==
    /\ call.op = "compare_hands"
    /\ Len(call.hand1) = 3
    /\ Len(call.hand2) = 3
    /\ Len(call.board) = 4
    /\ \A i \in 1..3 : call.hand1[i] # call.hand2[i]
    /\ ret.raised

(* ----------------------------- Card on its own ------------------------- *)
(* A program constructing Card objects from codes, integers and other      *)
(* cards and printing them: call records the constructor's argument and    *)
(* the card held before, ret the card made and what str() gives for it.    *)

\* Characters codes are written with: the thirteen ranks and four suits,
\* and characters that are neither (the dicts are case-sensitive).
RankInputs == Range(RANKS) \cup {"1", "a"}

SuitInputs == Range(SUITS) \cup {"S", "x"}

\* The strings handed to Card(): every two-character code over the inputs,
\* and strings of one and of three characters.
CodeInputs ==
    {<<r, s>> : r \in RankInputs, s \in SuitInputs}
        \cup {<<"A">>, <<"T", "s", "s">>}

NoCard == [raised |-> TRUE, card |-> PyCard(0), str |-> <<>>]

\* Card(val) followed by str() of the card made.
Card_new(val) ==
    IF Card_init(val).raised THEN NoCard
    ELSE [raised |-> FALSE, card |-> Card_init(val).card,
          str |-> Card_str(Card_init(val).card)]

InitCard ==
    /\ table = "max"
    /\ heap = EmptyHeap
    /\ call = [op |-> "none"]
    /\ ret = NoCard
    /\ ops = 0
    /\ NoSearch

\* Card("Kd")
CardFromStr ==
    /\ ops < MaxOps
    /\ \E code \in CodeInputs :
           /\ call' = [op |-> "Card", val |-> PyStr(code), before |-> ret]
           /\ ret' = Card_new(PyStr(code))
    /\ ops' = ops + 1
    /\ UNCHANGED <<searchFrame, heap, table>>

\* Card(n): n the value of the card held, or a number no card has.
CardFromInt ==
    /\ ops < MaxOps
    /\ \E v \in {0, 53} \cup (IF ret.raised THEN {} ELSE {ret.card.value}) :
           /\ call' = [op |-> "Card", val |-> PyInt(v), before |-> ret]
           /\ ret' = Card_new(PyInt(v))
    /\ ops' = ops + 1
    /\ UNCHANGED <<searchFrame, heap, table>>

\* Card(card): a copy of the card held, as Deck.copy makes it.
CardFromCard ==
    /\ ops < MaxOps
    /\ ~ret.raised
    /\ call' = [op |-> "Card", val |-> ret.card, before |-> ret]
    /\ ret' = Card_new(ret.card)
    /\ ops' = ops + 1
    /\ UNCHANGED <<searchFrame, heap, table>>

NextCard ==
    \/ CardFromStr
    \/ CardFromInt
    \/ CardFromCard

SpecCard == InitCard /\ [][NextCard]_vars

botFrame == <<hand, board, deck, table, pc, leaf, result, simulations,
              win_prob, threshold, decision, err, deck0, history, gen, cmp,
              world, vac, ucs>>

\* The boards and decks the caller's engine is built with: a full board
\* and three cards, a board of four and one card, a board of three and
\* three cards.
BotInputs == {<<5, 3>>, <<4, 1>>, <<3, 3>>}

\* The outcomes of the copy's shuffle that are tried: as it was, its first
\* two cards swapped, reversed.
BotShuffles(n) ==
    IF n < 2 THEN PermsOf(n)
    ELSE {[i \in 1..n |-> i], SwapFirst(n), Reversal(n)}

InitBot ==
    /\ \E i \in BotInputs : PokerBot_init(i[1], i[2], "sum", 0, 0)
    /\ call = [op |-> "PokerBot", node |-> 0, res |-> 0, before |-> <<>>]
    /\ ret = [raised |-> FALSE, node |-> 1, gen |-> NoGen]
    /\ ops = 0
    /\ NoPlanner

\* bot.select()
BotSelect ==
    /\ ops < MaxCalls
    /\ \E s \in select(tree) :
           /\ call' = [op |-> "select", node |-> 0, res |-> 0, before |-> tree]
           /\ ret' = [raised |-> s.raised, node |-> s.node, gen |-> NoGen]
    /\ ops' = ops + 1
    /\ UNCHANGED <<botFrame, tree, heap>>

\* bot.expand(node)
BotExpand ==
    /\ ops < MaxCalls
    /\ \E node \in 1..Len(tree) :
       \E perm \in BotShuffles(deck_len(heap, deck)) :
       \E e \in {expand(tree, node, heap, deck, board, perm)} :
           /\ tree' = e.tree
           /\ heap' = e.heap
           /\ call' = [op |-> "expand", node |-> node, res |-> 0,
                       before |-> tree]
           /\ ret' = [raised |-> e.raised, node |-> e.node,
                      gen |-> [called |-> TRUE, raised |-> e.gen.raised,
                               scenario |-> e.gen.scenario]]
    /\ ops' = ops + 1
    /\ UNCHANGED botFrame

\* bot.backpropagate(node, res)
BotBackpropagate ==
    /\ ops < MaxCalls
    /\ \E node \in 1..Len(tree), res \in {0, 1} :
           /\ tree' = backpropagate(tree, node, res)
           /\ call' = [op |-> "backpropagate", node |-> node, res |-> res,
                       before |-> tree]
           /\ ret' = [raised |-> FALSE, node |-> 0, gen |-> NoGen]
    /\ ops' = ops + 1
    /\ UNCHANGED <<botFrame, heap>>

NextBot ==
    \/ BotSelect
    \/ BotExpand
    \/ BotBackpropagate

SpecBot == InitBot /\ [][NextBot]_vars

RECURSIVE ChainOf(_, _)
\* The nodes on the parent chain from n up to the root.
ChainOf(t, n) == IF n = 0 THEN {} ELSE {n} \cup ChainOf(t, t[n].parent)

\* C12: backpropagate(node, result) adds 1 to visits and result to wins on
\* every node from node up to the root, the root included, and leaves
\* every field of every other node, and every other field, as it was.
C12_BackpropagateFrame ==
    call.op = "backpropagate" =>
        /\ Len(tree) = Len(call.before)
        /\ 1 \in ChainOf(call.before, call.node)
        /\ \A n \in 1..Len(tree) :
               IF n \in ChainOf(call.before, call.node)
               THEN tree[n] = [call.before[n] EXCEPT
                                  !.visits = @ + 1, !.wins = @ + call.res]
               ELSE tree[n] = call.before[n]

\* A win was backpropagated from a child whose sibling had been visited.
C12_Witness ==
    /\ call.op = "backpropagate"
    /\ call.res = 1
    /\ call.node # 1
    /\ \E n \in 1..Len(tree) :
           /\ n \notin ChainOf(tree, call.node)
           /\ tree[n].visits >= 1
           /\ tree[n].parent = tree[call.node].parent

\* Two scenarios with the same opponent cards and the same board cards,
\* in whatever order.
SameCards(s1, s2) ==
    Range(s1.op) = Range(s2.op) /\ Range(s1.nb) = Range(s2.nb)

\* C15: when the sampled scenario has the cards of a child of the expanded
\* node, in whatever order, expand returns that child and the tree is as
\* it was; otherwise it returns one new node, the last child of that node,
\* with the sampled scenario, and nothing else changes.  The keys of a
\* node's children are the fingerprints of different children, and no two
\* children of a node have the same cards.
C15_ExpandDedup ==
    /\ call.op = "expand" /\ ~ret.raised /\ ret.gen.scenario.some =>
           IF \E c \in children_of(call.before, call.node) :
                  SameCards(call.before[c].scenario, ret.gen.scenario)
           THEN /\ tree = call.before
                /\ ret.node \in children_of(tree, call.node)
                /\ SameCards(tree[ret.node].scenario, ret.gen.scenario)
           ELSE /\ Len(tree) = Len(call.before) + 1
                /\ ret.node = Len(tree)
                /\ tree[ret.node] = MCTSNode(hand, board, call.node,
                                             ret.gen.scenario)
                /\ children_of(tree, call.node)
                       = children_of(call.before, call.node) \cup {ret.node}
                /\ \A n \in 1..Len(call.before) :
                       tree[n] = [call.before[n] EXCEPT
                                     !.children = tree[n].children]
                /\ \A n \in 1..Len(call.before) :
                       n # call.node =>
                           tree[n].children = call.before[n].children
    /\ \A n \in 1..Len(tree) :
           /\ \A k \in DOMAIN tree[n].children :
                  /\ scenario_key(tree[tree[n].children[k]].scenario) = k
                  /\ tree[tree[n].children[k]].parent = n
           /\ \A c1, c2 \in children_of(tree, n) :
                  c1 # c2 => ~SameCards(tree[c1].scenario, tree[c2].scenario)

\* A child was returned again for the same opponent cards in another order.
C15_Witness ==
    /\ call.op = "expand"
    /\ ret.gen.scenario.some
    /\ tree = call.before
    /\ ret.node # call.node
    /\ tree[ret.node].scenario # ret.gen.scenario
    /\ Cardinality(children_of(tree, call.node)) >= 2

\* C18: select returns, without raising, a node that has no children and
\* hangs below the root; every node on the way down scores at least as
\* high as each of its siblings, an unvisited one scoring infinity: where
\* a sibling is unvisited the node descended into is unvisited too.
C18_SelectMaximal ==
    call.op = "select" =>
        /\ ~ret.raised
        /\ ret.node \in 1..Len(tree)
        /\ DOMAIN tree[ret.node].children = {}
        /\ 1 \in ChainOf(tree, ret.node)
        /\ \A n \in ChainOf(tree, ret.node) \ {1} :
               /\ n \in children_of(tree, tree[n].parent)
               /\ \A e \in children_of(tree, tree[n].parent) :
                      /\ ScoreGeq(ucb1(tree, n), ucb1(tree, e))
                      /\ tree[e].visits = 0 => tree[n].visits = 0
                      /\ tree[e].visits = 0 => ucb1(tree, e).inf

\* select went past a visited first child to its unvisited sibling.
C18_Witness ==
    /\ call.op = "select"
    /\ ret.node # 1
    /\ tree[ret.node].visits = 0
    /\ \E e \in children_of(tree, tree[ret.node].parent) :
           e < ret.node /\ tree[e].visits >= 1

\* select chose the second of two visited siblings for its higher score.
C18_WitnessVisited ==
    /\ call.op = "select"
    /\ ret.node # 1
    /\ tree[ret.node].visits >= 1
    /\ \E e \in children_of(tree, tree[ret.node].parent) :
           /\ e < ret.node
           /\ tree[e].visits >= 1
           /\ ~ScoreGeq(ucb1(tree, e), ucb1(tree, ret.node))

(* ------------------------------ the planner ---------------------------- *)
(* main of planner.py with uniform-cost: a world is read, run_ucs runs     *)
(* one pass of its while loop a step, then find_path gives the actions.    *)

\* The shapes of the grids read: rows and columns.
Shapes ==
    {sh \in (1..MaxCells) \X (1..MaxCells) : sh[1] * sh[2] <= MaxCells}

Cells(sh) == (0..(sh[1] - 1)) \X (0..(sh[2] - 1))

\* The lines of a file: @ the start, * dirty, # blocked, _ any other cell.
GridLines(sh, start, dirty, walls) ==
    [r \in 1..sh[1] |->
        [c \in 1..sh[2] |->
            IF <<r - 1, c - 1>> = start THEN "@"
            ELSE IF <<r - 1, c - 1>> \in dirty THEN "*"
            ELSE IF <<r - 1, c - 1>> \in walls THEN "#"
            ELSE "_"]]

\* VacuumWorld(fname); VacuumBot(world)
InitPlanner ==
    /\ \E sh \in Shapes :
       \E start \in Cells(sh) :
       \E dirty \in SUBSET (Cells(sh) \ {start}) :
       \E walls \in SUBSET (Cells(sh) \ ({start} \cup dirty)) :
           /\ Cardinality(dirty) <= MaxDirty
           /\ Cardinality(walls) <= MaxWalls
           /\ world = VacuumWorld_init(sh[2], sh[1],
                                       GridLines(sh, start, dirty, walls))
    /\ vac = VacuumBot_init(world)
    /\ ucs = [pc |-> "new"]
    /\ table = "max"
    /\ heap = EmptyHeap
    /\ call = [op |-> "none"]
    /\ ret = [raised |-> FALSE]
    /\ ops = 0
    /\ hand = <<>>
    /\ board = <<>>
    /\ deck = 0
    /\ deck0 = <<>>
    /\ tree = <<>>
    /\ pc = "idle"
    /\ leaf = 0
    /\ result = 0
    /\ simulations = 0
    /\ win_prob = <<0, 1>>
    /\ threshold = <<0, 1>>
    /\ decision = ""
    /\ err = ""
    /\ history = <<>>
    /\ gen = NoGen
    /\ cmp = NoCmp

plannerFrame == <<hand, board, deck, heap, table, tree, pc, leaf, result,
                  simulations, win_prob, threshold, decision, err, deck0,
                  history, gen, cmp, call, ret, ops, world>>

\* run_ucs, lines 107-111: the locals, the start pushed with id 0.
UcsStart ==
    /\ ucs.pc = "new"
    /\ ucs' = [pc |-> "loop", gen |-> 0, exp |-> 0, id |-> 1,
               costs |-> (vac.start :> 0),
               heap |-> {[cost |-> 0, id |-> 0, state |-> vac.start]},
               path |-> <<>>]
    /\ UNCHANGED <<plannerFrame, vac>>

\* run_ucs, lines 113-132: one pass of the while loop, to its end, to the
\* continue of line 118 or to the return of line 126.
UcsIteration ==
    /\ ucs.pc = "loop"
    /\ ucs.heap # {}
    /\ \E e \in {heappop(ucs.heap)} :
           IF e.cost > ucs.costs[e.state]
           THEN /\ ucs' = [ucs EXCEPT !.exp = @ + 1, !.heap = @ \ {e}]
                /\ vac' = vac
           ELSE \E loc \in {ucs_for(e.state, e.cost,
                                     next_states(world, e.state), 1,
                                     [gen |-> ucs.gen, id |-> ucs.id,
                                      costs |-> ucs.costs,
                                      heap |-> ucs.heap \ {e},
                                      parents |-> vac.parents,
                                      goal |-> vac.goal,
                                      returned |-> FALSE])} :
                    /\ ucs' = [ucs EXCEPT
                                  !.pc = IF loc.returned THEN "returned"
                                         ELSE "loop",
                                  !.exp = @ + 1,
                                  !.gen = loc.gen,
                                  !.id = loc.id,
                                  !.costs = loc.costs,
                                  !.heap = loc.heap]
                    /\ vac' = [vac EXCEPT !.parents = loc.parents,
                                          !.goal = loc.goal]
    /\ UNCHANGED plannerFrame

\* run_ucs, lines 113 and 134: the heap is empty; return gen, exp.
UcsExhausted ==
    /\ ucs.pc = "loop"
    /\ ucs.heap = {}
    /\ ucs' = [ucs EXCEPT !.pc = "returned"]
    /\ UNCHANGED <<plannerFrame, vac>>

\* main, lines 184-185: the actions find_path yields.
FindPath ==
    /\ ucs.pc = "returned"
    /\ ucs' = [ucs EXCEPT !.pc = "done", !.path = find_path(vac)]
    /\ UNCHANGED <<plannerFrame, vac>>

NextPlanner ==
    \/ UcsStart
    \/ UcsIteration
    \/ UcsExhausted
    \/ FindPath

SpecPlanner == InitPlanner /\ [][NextPlanner]_vars

\* What an action makes of a state: a move must land on a cell of the grid
\* that is not blocked, V must be applied on a dirty cell.
Apply(st, action) ==
    IF action = "V"
    THEN [ok |-> st.pos \in st.dirty,
          state |-> [pos |-> st.pos, dirty |-> st.dirty \ {st.pos}]]
    ELSE [ok |-> /\ action \in {"N", "S", "E", "W"}
                 /\ (st.pos[1] + offset(action)[1]) \in 0..(world.nrows - 1)
                 /\ (st.pos[2] + offset(action)[2]) \in 0..(world.ncols - 1)
                 /\ world.grid[st.pos[1] + offset(action)[1] + 1]
                               [st.pos[2] + offset(action)[2] + 1] # "#",
          state |-> [pos |-> <<st.pos[1] + offset(action)[1],
                               st.pos[2] + offset(action)[2]>>,
                     dirty |-> st.dirty]]

RECURSIVE Execute(_, _, _)
\* The actions of path from the i-th on, executed from st.
Execute(st, path, i) ==
    IF i > Len(path) THEN [ok |-> TRUE, state |-> st]
    ELSE IF ~Apply(st, path[i]).ok THEN [ok |-> FALSE, state |-> st]
    ELSE Execute(Apply(st, path[i]).state, path, i + 1)

\* The states one action leads to from a state of sts.
Successors(sts) ==
    {x.state : x \in {y \in {Apply(st, a) : st \in sts,
                                a \in {"V", "N", "S", "E", "W"}} : y.ok}}

RECURSIVE MinActions(_, _, _)
\* The least number of actions that lead from a state of sts to a state
\* with no dirty cells, plus k, where seen holds sts and the states nearer
\* the start; -1 if there is no such state.
MinActions(sts, seen, k) ==
    IF \E st \in sts : st.dirty = {} THEN k
    ELSE IF sts = {} THEN -1
    ELSE MinActions(Successors(sts) \ seen,
                    seen \cup Successors(sts), k + 1)

\* The path main was given can be executed from the start, ends in a state
\* with no dirty cells and is as short as any such sequence of actions.
PathOptimal ==
    /\ vac.goal.some
    /\ Execute(vac.start, ucs.path, 1).ok
    /\ Execute(vac.start, ucs.path, 1).state.dirty = {}
    /\ Execute(vac.start, ucs.path, 1).state = vac.goal.state
    /\ Len(ucs.path) = MinActions({vac.start}, {vac.start}, 0)

\* C21: in a world where a state with no dirty cells can be reached from
\* the start, run_ucs ends (no more passes of its loop than there are
\* states) with a goal recorded, and the actions find_path yields can be
\* executed from the start, end in a state with no dirty cells, and are
\* as few as any such sequence.
C21_UcsOptimal ==
    /\ ucs.pc \in {"loop", "returned", "done"} =>
           ucs.exp <= world.nrows * world.ncols * (2 ^ Len(world.dirty))
    /\ ucs.pc = "done" /\ MinActions({vac.start}, {vac.start}, 0) >= 0 =>
           PathOptimal

\* The same of the worlds that have a dirty cell to begin with.
UcsOptimalWhenDirty ==
    ucs.pc = "done" /\ Len(world.dirty) > 0
    /\ MinActions({vac.start}, {vac.start}, 0) >= 0 =>
        PathOptimal

\* Two dirty cells were cleaned in four actions.
UcsOptimalWhenDirtyWitness ==
    /\ ucs.pc = "done"
    /\ Len(world.dirty) = 2
    /\ Len(ucs.path) = 4
    /\ vac.goal.some

====
